---- MODULE Spec2Model ----
(***************************************************************************)
(* Model of the tool-routing and memory loop of MCPChatServer              *)
(* (client_clean.py): the keyword router pick_tool, the handlers, the      *)
(* FAISS memory store with its on-disk snapshot, and the chat loop run().  *)
(* Texts are strings; a document is a record of page_content, source and   *)
(* timestamp, and a store (in memory or on disk) is a sequence of them.    *)
(***************************************************************************)
EXTENDS Naturals, Sequences, FiniteSets, TLC

\* ----------------------------------------------------------------------
\* Bounds
\* ----------------------------------------------------------------------
\* number of input lines read over all runs of the program
MaxLines == 2
\* number of words in a text handed to the router on its own
MaxWords == 2
\* number of input lines each of two instances reads
MaxTurns == 1
\* number of requests the web server receives
MaxRequests == 2

\* ----------------------------------------------------------------------
\* Strings: str.lower(), str.strip(), the substring test `kw in text`
\* ----------------------------------------------------------------------
UpperAlpha == "ABCDEFGHIJKLMNOPQRSTUVWXYZ"
LowerAlpha == "abcdefghijklmnopqrstuvwxyz"

\* each upper-case letter with its lower-case letter
LowerMap ==
    [c \in { SubSeq(UpperAlpha, i, i) : i \in 1..Len(UpperAlpha) } |->
        LET i == CHOOSE j \in 1..Len(UpperAlpha) : SubSeq(UpperAlpha, j, j) = c
        IN  SubSeq(LowerAlpha, i, i)]

LowerChar(c) == IF c \in DOMAIN LowerMap THEN LowerMap[c] ELSE c

RECURSIVE Lower(_)
Lower(s) ==
    IF Len(s) = 0 THEN ""
    ELSE LowerChar(SubSeq(s, 1, 1)) \o Lower(SubSeq(s, 2, Len(s)))

Whitespace == {" ", "\t"}

RECURSIVE Strip(_)
Strip(s) ==
    IF Len(s) = 0 THEN ""
    ELSE IF SubSeq(s, 1, 1) \in Whitespace THEN Strip(SubSeq(s, 2, Len(s)))
    ELSE IF SubSeq(s, Len(s), Len(s)) \in Whitespace THEN Strip(SubSeq(s, 1, Len(s) - 1))
    ELSE s

\* Python's `word in text` on two strings
Contains(text, word) ==
    \E i \in 0..(Len(text) - Len(word)) : SubSeq(text, i + 1, i + Len(word)) = word

\* ----------------------------------------------------------------------
\* Router: the keyword sets of __init__ and pick_tool
\* ----------------------------------------------------------------------
websearch_keywords ==
    { "today", "yesterday", "now", "latest", "current", "news",
      "weather", "who won", "price", "open in", "near me" }

\* the first assignment to self.math_keywords, overwritten below
math_keywords_first ==
    { "calculate", "solve", "math", "equation", "derivative", "integral",
      "simplify", "evaluate", "derive", "integrate", "limit", "series",
      "trigonometry", "algebra", "geometry", "calculus", "statistics",
      "probability", "matrix", "vector", "function" }

gmail_keywords ==
    { "send", "mail", "gmail", "email", "message", "compose", "send email",
      "send mail", "send message", "send gmail to ", "send gmail", "subject",
      "read email" }

\* the second assignment to self.math_keywords is the one in force
math_keywords ==
    { "calculate", "solve", "math", "equation", "derivative", "integral" }

music_keywords ==
    { "play", "music", "song", "album", "artist", "playlist", "radio", "station",
      "shuffle", "repeat", "volume", "lyrics", "lyric" }

\* the letters of a case-folded text
Letters == { SubSeq(LowerAlpha, i, i) : i \in 1..Len(LowerAlpha) }

\* the word occurs in the text with no letter right before it or after it
ContainsWord(text, word) ==
    \E i \in 0..(Len(text) - Len(word)) :
        /\ SubSeq(text, i + 1, i + Len(word)) = word
        /\ i > 0 => SubSeq(text, i, i) \notin Letters
        /\ i + Len(word) < Len(text) =>
              SubSeq(text, i + Len(word) + 1, i + Len(word) + 1) \notin Letters

\* the keyword test on whole words
AnyWordIn_whole_words(keywords, text) == \E word \in keywords : ContainsWord(text, word)

AnyWordIn(keywords, text) == \E word \in keywords : Contains(text, word)

\* pick_tool with the mail and music tests in the other order and no case folding
pick_tool_reordered(query) ==
    IF AnyWordIn(websearch_keywords, query) THEN "websearch"
    ELSE IF AnyWordIn(music_keywords, query) THEN "music-player"
    ELSE IF AnyWordIn(gmail_keywords, query) THEN "gmail"
    ELSE IF AnyWordIn(math_keywords, query) THEN "math"
    ELSE "llm"

\* pick_tool with the music test ahead of the mail test
pick_tool_music_first(query) ==
    LET query_lower == Lower(query) IN
    IF AnyWordIn(websearch_keywords, query_lower) THEN "websearch"
    ELSE IF AnyWordIn(music_keywords, query_lower) THEN "music-player"
    ELSE IF AnyWordIn(gmail_keywords, query_lower) THEN "gmail"
    ELSE IF AnyWordIn(math_keywords, query_lower) THEN "math"
    ELSE "llm"

\* pick_tool matching the keywords against the text as typed
pick_tool_case_sensitive(query) ==
    IF AnyWordIn(websearch_keywords, query) THEN "websearch"
    ELSE IF AnyWordIn(gmail_keywords, query) THEN "gmail"
    ELSE IF AnyWordIn(music_keywords, query) THEN "music-player"
    ELSE IF AnyWordIn(math_keywords, query) THEN "math"
    ELSE "llm"

pick_tool(query) ==
    LET query_lower == Lower(query) IN
    IF AnyWordIn(websearch_keywords, query_lower) THEN "websearch"
    ELSE IF AnyWordIn(gmail_keywords, query_lower) THEN "gmail"
    ELSE IF AnyWordIn(music_keywords, query_lower) THEN "music-player"
    ELSE IF AnyWordIn(math_keywords, query_lower) THEN "math"
    ELSE "llm"

\* ----------------------------------------------------------------------
\* State of one MCPChatServer process and of its environment
\* ----------------------------------------------------------------------
VARIABLES
    pc,            \* position of run(): the statement about to execute
    groq_api_key,  \* os.getenv("GROQ_API_KEY") is set
    tools,         \* self.tools: the names of the tools get_tools() returned
    faiss_index,   \* self.faiss_index: the documents of the in-memory store
    disk,          \* the snapshot saved at self.index_path
    user_input,    \* the stripped line the loop is handling
    chosen_tool,   \* process_query's chosen_tool
    response,      \* process_query's response
    context,       \* handle_llm's retrieved documents with non-empty text, while it runs
    now,           \* datetime.now(), a logical clock
    lines,         \* input lines read so far
    line,          \* history: the raw line read last
    events,        \* history: the operations performed for the last line
    outcome,       \* history: how the handling of the last line ended
    store0,        \* history: faiss_index when the last line was read
    disk0,         \* history: disk when the last line was read
    cleared_at,    \* history: the clock at the last completed clear
    calls,         \* history: the external calls made for the last line
    unsaved        \* history: documents of faiss_index appended by turns whose
                   \*          save_local raised, not written by a save_local since

\* the variables of the chat loop
chat_vars == << pc, groq_api_key, tools, faiss_index, disk, user_input, chosen_tool,
                response, context, now, lines, line, events, outcome, store0, disk0,
                cleared_at, calls, unsaved >>

\* State of one call of the solve_math tool (mathserver.py)
VARIABLES
    mpc,           \* position of solve_math: the statement about to execute
    math_query,    \* solve_math's query
    content,       \* what call_llm returned
    parsed,        \* the value json.loads gave, with the expression cleaned
    expression,    \* solve_math's expression
    variables,     \* solve_math's variables
    stages,        \* history: the stages that ran without raising
    math_result    \* what solve_math returned, or the exception that left it

math_vars == << mpc, math_query, content, parsed, expression, variables, stages,
               math_result >>

\* State of two MCPChatServer processes that share one index_path
VARIABLES
    ipc,           \* per instance: the statement it is about to execute
    istore,        \* per instance: self.faiss_index
    snapshot,      \* the snapshot saved at the shared index_path
    iturns,        \* per instance: input lines read so far
    iclock,        \* datetime.now(), a logical clock
    persisted,     \* history, per instance: the documents of the turns it has
                   \*          completed and persisted
    last_writer    \* history: the instance whose save_local wrote the snapshot, or 0

two_vars == << ipc, istore, snapshot, iturns, iclock, persisted, last_writer >>

\* State of the web server process (server.py) and of its requests
VARIABLES
    mcp_initialized,  \* the global flag
    mcp_components,   \* the global: which dict it is bound to; 0 is the empty one
    dicts,            \* the component dicts built so far, each with its faiss_index
    index_file,       \* the snapshot saved at "faiss_index"
    tpc,              \* per task: the await point or statement it stands at
    tkind,            \* per task: startup event, POST /chat or POST /clear
    tmsg,             \* per task: message.message
    components,       \* per task: the local variable components (a dict)
    reply,            \* per task: the HTTP answer
    sclock,           \* datetime.now(), a logical clock
    docs_of,          \* history, per task: the documents it added
    tcalls,           \* history, per task: the agent and model calls it made
    saves,            \* history, per task: its save_local calls that returned
    cleared_over,     \* history: the tasks that had begun when a clear reset the store
    builds            \* history: how many initializations ran to completion

server_vars == << mcp_initialized, mcp_components, dicts, index_file, tpc, tkind, tmsg,
                  components, reply, sclock, docs_of, tcalls, saves, cleared_over, builds >>

\* the variables the chat loop never touches
other_vars == << math_vars, two_vars, server_vars >>

\* the variables a call of solve_math, the two instances, the web server
\* never touch
math_frame == << chat_vars, two_vars, server_vars >>
two_frame == << chat_vars, math_vars, server_vars >>
server_frame == << chat_vars, math_vars, two_vars >>

vars == << chat_vars, other_vars >>

\* self.faiss_index = None, and also: no snapshot at index_path
NoIndex == << >>
None == "None"

Document(text, source, timestamp) ==
    [page_content |-> text, source |-> source, timestamp |-> timestamp]

\* the entry of FAISS.from_texts([""], embeddings): empty text, no metadata
Placeholder == Document("", "none", 0)
from_texts == << Placeholder >>

\* add_texts that puts the new document in front
add_texts_in_front(index, text, source, timestamp) ==
    << Document(text, source, timestamp) >> \o index

\* faiss_index.add_texts([text], metadatas=[{source, timestamp}])
add_texts(index, text, source, timestamp) ==
    Append(index, Document(text, source, timestamp))

\* the tool names get_tool_by_name is asked for
ToolNames == {"websearch", "math"}
get_tool_by_name(name) == IF name \in tools THEN name ELSE None

\* what the external services can answer
ModelReplies == {"model reply"}
\* a tool result is a string or a dict
MathResults ==
    { [type |-> "str", value |-> "x = 2"], [type |-> "dict", value |-> "2.0"] }

\* the lines a user types
Lines ==
    { "", "  ", "q", "EXIT", "clear", " Clear ", "hi", "latest news",
      "Solve x", "send mail", "play a song" }

exit_tokens == {"exit", "quit", "q"}

\* no call of solve_math is under way
MathIdle ==
    /\ mpc = "idle"
    /\ math_query = None
    /\ content = None
    /\ parsed = None
    /\ expression = None
    /\ variables = None
    /\ stages = << >>
    /\ math_result = None

\* the two instances have not been started
TwoIdle ==
    /\ ipc = None
    /\ istore = None
    /\ snapshot = NoIndex
    /\ iturns = None
    /\ iclock = 1
    /\ persisted = None
    /\ last_writer = 0

\* the web server has not been started
ServerIdle ==
    /\ mcp_initialized = FALSE
    /\ mcp_components = 0
    /\ dicts = << >>
    /\ index_file = NoIndex
    /\ tpc = None
    /\ tkind = None
    /\ tmsg = None
    /\ components = None
    /\ reply = None
    /\ sclock = 1
    /\ docs_of = None
    /\ tcalls = None
    /\ saves = None
    /\ cleared_over = {}
    /\ builds = 0

OthersIdle == MathIdle /\ TwoIdle /\ ServerIdle

\* no chat loop is running
ChatIdle ==
    /\ pc = "idle"
    /\ groq_api_key = TRUE
    /\ tools = {}
    /\ faiss_index = NoIndex
    /\ disk = NoIndex
    /\ user_input = ""
    /\ chosen_tool = None
    /\ response = None
    /\ context = {}
    /\ now = 1
    /\ lines = 0
    /\ line = None
    /\ events = << >>
    /\ outcome = "none"
    /\ store0 = NoIndex
    /\ disk0 = NoIndex
    /\ cleared_at = 0
    /\ calls = << >>
    /\ unsaved = << >>

Init ==
    /\ pc = "initialize"
    /\ groq_api_key \in BOOLEAN
    /\ tools = {}
    /\ faiss_index = NoIndex
    /\ disk = NoIndex
    /\ user_input = ""
    /\ chosen_tool = None
    /\ response = None
    /\ context = {}
    /\ now = 1
    /\ lines = 0
    /\ line = None
    /\ events = << >>
    /\ outcome = "none"
    /\ store0 = NoIndex
    /\ disk0 = NoIndex
    /\ cleared_at = 0
    /\ calls = << >>
    /\ unsaved = << >>
    /\ OthersIdle

Log(e) == events' = Append(events, e)

\* ----------------------------------------------------------------------
\* initialize()
\* ----------------------------------------------------------------------
\* initialize without the key test: the index is set up and the loop entered
InitializeNoKey_ignored ==
    /\ pc = "initialize"
    /\ ~groq_api_key
    /\ \E ts \in SUBSET ToolNames : tools' = ts
    /\ faiss_index' = IF disk # NoIndex THEN disk ELSE from_texts
    /\ pc' = "AwaitingInput"
    /\ outcome' = "initialized"
    /\ UNCHANGED << calls, unsaved, cleared_at, groq_api_key, disk, user_input, chosen_tool,
                    response, context, now, lines, line, events, store0, disk0 >>
    /\ UNCHANGED other_vars

\* GROQ_API_KEY missing: ValueError, caught by run's outer handler
InitializeNoKey ==
    /\ pc = "initialize"
    /\ ~groq_api_key
    /\ pc' = "Shutdown"
    /\ outcome' = "fatal"
    /\ UNCHANGED << calls, unsaved, cleared_at, groq_api_key, tools, faiss_index, disk, user_input, chosen_tool,
                    response, context, now, lines, line, events, store0, disk0 >>
    /\ UNCHANGED other_vars

\* get_tools(), ChatGroq, load_local or from_texts raise: the same fatal path
InitializeRaises ==
    /\ pc = "initialize"
    /\ groq_api_key
    /\ pc' = "Shutdown"
    /\ outcome' = "fatal"
    /\ UNCHANGED << calls, unsaved, cleared_at, groq_api_key, tools, faiss_index, disk, user_input, chosen_tool,
                    response, context, now, lines, line, events, store0, disk0 >>
    /\ UNCHANGED other_vars

\* initialize that always starts from a fresh index
InitializeOk_always_fresh ==
    /\ pc = "initialize"
    /\ groq_api_key
    /\ \E ts \in SUBSET ToolNames : tools' = ts
    /\ faiss_index' = from_texts
    /\ pc' = "AwaitingInput"
    /\ outcome' = "initialized"
    /\ UNCHANGED << calls, unsaved, cleared_at, groq_api_key, disk, user_input, chosen_tool,
                    response, context, now, lines, line, events, store0, disk0 >>
    /\ UNCHANGED other_vars

\* get_tools(), ChatGroq, then load the snapshot or create a fresh index
InitializeOk ==
    /\ pc = "initialize"
    /\ groq_api_key
    /\ \E ts \in SUBSET ToolNames : tools' = ts
    /\ faiss_index' = IF disk # NoIndex THEN disk ELSE from_texts
    /\ pc' = "AwaitingInput"
    /\ outcome' = "initialized"
    /\ UNCHANGED << calls, unsaved, cleared_at, groq_api_key, disk, user_input, chosen_tool, response, context,
                    now, lines, line, events, store0, disk0 >>
    /\ UNCHANGED other_vars

\* ----------------------------------------------------------------------
\* run(): reading one line and the branches that need no await
\* ----------------------------------------------------------------------
\* input("\nYou: ").strip(); the history variables record the moment
ReadLine(l) ==
    /\ pc = "AwaitingInput"
    /\ lines < MaxLines
    /\ lines' = lines + 1
    /\ line' = l
    /\ user_input' = Strip(l)
    /\ store0' = faiss_index
    /\ disk0' = disk
    /\ chosen_tool' = None
    /\ response' = None
    /\ context' = {}
    /\ calls' = << >>
    /\ UNCHANGED other_vars

\* the loop without the empty-line test
IsEmpty_never(s) == FALSE

IsEmpty(s) == s = ""
IsExit(s) == Lower(s) \in exit_tokens
IsClear(s) == Lower(s) = "clear"

\* if not user_input: continue
EmptyLine ==
    \E l \in Lines :
        /\ ReadLine(l)
        /\ IsEmpty(Strip(l))
        /\ events' = << >>
        /\ outcome' = "empty"
        /\ pc' = "AwaitingInput"
        /\ UNCHANGED << unsaved, cleared_at, groq_api_key, tools, faiss_index, disk, now >>

\* exit handled after the line was stored and the index saved
ExitLine_stores_token ==
    \E l \in Lines :
        /\ ReadLine(l)
        /\ ~IsEmpty(Strip(l))
        /\ IsExit(Strip(l))
        /\ faiss_index' = add_texts(faiss_index, Strip(l), "user", now)
        /\ disk' = faiss_index'
        /\ now' = now + 1
        /\ events' = << "add_texts:user", "save_local" >>
        /\ outcome' = "exit"
        /\ pc' = "Shutdown"
        /\ UNCHANGED << unsaved, cleared_at, groq_api_key, tools >>

\* if user_input.lower() in ["exit", "quit", "q"]: print(...); break
ExitLine ==
    \E l \in Lines :
        /\ ReadLine(l)
        /\ ~IsEmpty(Strip(l))
        /\ IsExit(Strip(l))
        /\ events' = << >>
        /\ outcome' = "exit"
        /\ pc' = "Shutdown"
        /\ UNCHANGED << unsaved, cleared_at, groq_api_key, tools, faiss_index, disk, now >>

\* clear that saves a fresh index but keeps using the old one
ClearLine_keeps_store ==
    \E l \in Lines :
        /\ ReadLine(l)
        /\ ~IsEmpty(Strip(l))
        /\ ~IsExit(Strip(l))
        /\ IsClear(Strip(l))
        /\ faiss_index' = faiss_index
        /\ disk' = from_texts
        /\ events' = << "from_texts", "save_local" >>
        /\ outcome' = "clear"
        /\ cleared_at' = now
        /\ unsaved' = << >>
        /\ pc' = "AwaitingInput"
        /\ UNCHANGED << groq_api_key, tools, now >>

\* if user_input.lower() == "clear": new index, save_local, continue;
\* from_texts or save_local may raise, which the loop's handler catches
ClearLine ==
    \E l \in Lines :
        /\ ReadLine(l)
        /\ ~IsEmpty(Strip(l))
        /\ ~IsExit(Strip(l))
        /\ IsClear(Strip(l))
        /\ \/ /\ faiss_index' = from_texts
              /\ disk' = from_texts
              /\ events' = << "from_texts", "save_local" >>
              /\ outcome' = "clear"
              /\ cleared_at' = now
              /\ unsaved' = << >>
           \/ /\ faiss_index' = from_texts
              /\ disk' = disk
              /\ events' = << "from_texts", "save_local:raised" >>
              /\ outcome' = "error"
              /\ unsaved' = << >>
              /\ UNCHANGED cleared_at
           \/ /\ faiss_index' = faiss_index
              /\ disk' = disk
              /\ events' = << "from_texts:raised" >>
              /\ outcome' = "error"
              /\ UNCHANGED << cleared_at, unsaved >>
        /\ pc' = "AwaitingInput"
        /\ UNCHANGED << groq_api_key, tools, now >>

\* any other line: print("\nAssistant: "), enter process_query
StartQuery ==
    \E l \in Lines :
        /\ ReadLine(l)
        /\ ~IsEmpty(Strip(l))
        /\ ~IsExit(Strip(l))
        /\ ~IsClear(Strip(l))
        /\ events' = << >>
        /\ outcome' = "processing"
        /\ pc' = "add_input"
        /\ UNCHANGED << unsaved, cleared_at, groq_api_key, tools, faiss_index, disk, now >>

\* ----------------------------------------------------------------------
\* process_query(), one action per statement; an exception raised in it
\* reaches `except Exception` of the loop, which prints it and goes on
\* ----------------------------------------------------------------------
\* the exception leaves the loop, as if the try enclosed the whole loop
Raise_fatal(e) ==
    /\ Log(e)
    /\ outcome' = "error"
    /\ pc' = "Shutdown"

Raise(e) ==
    /\ Log(e)
    /\ outcome' = "error"
    /\ pc' = "AwaitingInput"

\* self.faiss_index.add_texts([user_input], metadatas=[{"source": "user", ...}])
AddUserInput ==
    /\ pc = "add_input"
    /\ now' = now + 1
    /\ \/ /\ faiss_index' = add_texts(faiss_index, user_input, "user", now)
          /\ Log("add_texts:user")
          /\ pc' = "pick_tool"
          /\ UNCHANGED outcome
       \/ /\ Raise("add_texts:user:raised")
          /\ UNCHANGED faiss_index
    /\ UNCHANGED << calls, unsaved, cleared_at, groq_api_key, tools, disk, user_input, chosen_tool, response,
                    context, lines, line, store0, disk0 >>
    /\ UNCHANGED other_vars

\* chosen_tool = self.pick_tool(user_input)
Route ==
    /\ pc = "pick_tool"
    /\ chosen_tool' = pick_tool(user_input)
    /\ Log("pick_tool")
    /\ pc' = "handler"
    /\ UNCHANGED << calls, unsaved, cleared_at, groq_api_key, tools, faiss_index, disk, user_input, response,
                    context, now, lines, line, outcome, store0, disk0 >>
    /\ UNCHANGED other_vars

\* the response is displayed as soon as the handler returns
Return_displayed_first(handler, r) ==
    /\ response' = r
    /\ Log(handler)
    /\ pc' = "print"
    /\ UNCHANGED outcome

\* a handler returned r
Return(handler, r) ==
    /\ response' = r
    /\ Log(handler)
    /\ pc' = "add_response"
    /\ UNCHANGED outcome

\* an external call: a tool's invoke or the model's ainvoke, with its input
Call(target, arg) == [target |-> target, arg |-> arg]

\* str(result) if not isinstance(result, str) else result
py_str(result) ==
    IF result.type = "str" THEN result.value
    ELSE "{'solutions': [" \o result.value \o "]}"

\* handle_websearch that invokes the search tool again when it has failed
HandleWebsearch_retries ==
    /\ pc = "handler"
    /\ chosen_tool = "websearch"
    /\ IF get_tool_by_name("websearch") = None
       THEN /\ Return("handle_websearch", "Web search tool not available.")
            /\ UNCHANGED calls
       ELSE \/ /\ \E r \in ModelReplies : Return("handle_websearch", r)
               /\ calls' = calls \o << Call("websearch", user_input), Call("model", user_input) >>
            \/ /\ Raise("handle_websearch:raised")
               /\ calls' = calls \o << Call("websearch", user_input), Call("websearch", user_input) >>
               /\ UNCHANGED response
            \/ /\ Raise("handle_websearch:raised")
               /\ calls' = calls \o << Call("websearch", user_input), Call("model", user_input) >>
               /\ UNCHANGED response
    /\ UNCHANGED << unsaved, cleared_at, groq_api_key, tools, faiss_index, disk, user_input,
                    chosen_tool, context, now, lines, line, store0, disk0 >>
    /\ UNCHANGED other_vars

\* if chosen_tool == "websearch": response = await self.handle_websearch(user_input)
\* the tool is missing, or search_tool.invoke raises, or model.ainvoke
\* raises, or the model's answer is returned
HandleWebsearch ==
    /\ pc = "handler"
    /\ chosen_tool = "websearch"
    /\ IF get_tool_by_name("websearch") = None
       THEN /\ Return("handle_websearch", "Web search tool not available.")
            /\ UNCHANGED calls
       ELSE \/ /\ \E r \in ModelReplies : Return("handle_websearch", r)
               /\ calls' = calls \o << Call("websearch", user_input), Call("model", user_input) >>
            \/ /\ Raise("handle_websearch:raised")
               /\ calls' = Append(calls, Call("websearch", user_input))
               /\ UNCHANGED response
            \/ /\ Raise("handle_websearch:raised")
               /\ calls' = calls \o << Call("websearch", user_input), Call("model", user_input) >>
               /\ UNCHANGED response
    /\ UNCHANGED << unsaved, cleared_at, groq_api_key, tools, faiss_index, disk, user_input,
                    chosen_tool, context, now, lines, line, store0, disk0 >>
    /\ UNCHANGED other_vars

\* handle_math that folds the case of the query before it calls the tool
HandleMath_folds_query ==
    /\ pc = "handler"
    /\ chosen_tool = "math"
    /\ get_tool_by_name("math") # None
    /\ \E r \in MathResults : Return("handle_math", py_str(r))
    /\ calls' = Append(calls, Call("math", Lower(user_input)))
    /\ UNCHANGED << unsaved, cleared_at, groq_api_key, tools, faiss_index, disk, user_input,
                    chosen_tool, context, now, lines, line, store0, disk0 >>
    /\ UNCHANGED other_vars

\* elif chosen_tool == "math": response = await self.handle_math(user_input)
HandleMath ==
    /\ pc = "handler"
    /\ chosen_tool = "math"
    /\ IF get_tool_by_name("math") = None
       THEN /\ Return("handle_math", "Math tool not available.")
            /\ UNCHANGED calls
       ELSE /\ calls' = Append(calls, Call("math", user_input))
            /\ \/ \E r \in MathResults : Return("handle_math", py_str(r))
               \/ /\ Raise("handle_math:raised")
                  /\ UNCHANGED response
    /\ UNCHANGED << unsaved, cleared_at, groq_api_key, tools, faiss_index, disk, user_input,
                    chosen_tool, context, now, lines, line, store0, disk0 >>
    /\ UNCHANGED other_vars

\* faiss_index.similarity_search(query, k): the k nearest documents, or all
\* of them when the index holds fewer; which ones is up to the embedding
TopK == 3
Min(a, b) == IF a < b THEN a ELSE b
similarity_search(index, k) ==
    { ks \in SUBSET (1..Len(index)) : Cardinality(ks) = Min(k, Len(index)) }

\* handle_llm that saves the index when the model call fails
HandleLlm_saves_on_error ==
    /\ pc = "handler"
    /\ chosen_tool \notin {"websearch", "math"}
    /\ Raise("handle_llm:raised")
    /\ calls' = Append(calls, Call("model", user_input))
    /\ disk' = faiss_index
    /\ UNCHANGED << unsaved, cleared_at, groq_api_key, tools, faiss_index, user_input, chosen_tool,
                    response, context, now, lines, line, store0, disk0 >>
    /\ UNCHANGED other_vars

\* else: response = await self.handle_llm(user_input)
\* handle_llm that joins every retrieved document, the empty ones too
HandleLlm_unfiltered ==
    /\ pc = "handler"
    /\ chosen_tool \notin {"websearch", "math"}
    /\ \/ /\ \E results \in similarity_search(faiss_index, TopK) :
                context' = { faiss_index[i] : i \in results }
          /\ \E r \in ModelReplies : Return("handle_llm", r)
          /\ calls' = Append(calls, Call("model", user_input))
       \/ /\ Raise("handle_llm:raised")
          /\ calls' = Append(calls, Call("model", user_input))
          /\ UNCHANGED << response, context >>
       \/ /\ Raise("handle_llm:raised")
          /\ UNCHANGED << calls, response, context >>
    /\ UNCHANGED << unsaved, cleared_at, groq_api_key, tools, faiss_index, disk, user_input,
                    chosen_tool, now, lines, line, store0, disk0 >>
    /\ UNCHANGED other_vars

\* similarity_search raises, or model.ainvoke raises, or the model's answer
\* is returned
HandleLlm ==
    /\ pc = "handler"
    /\ chosen_tool \notin {"websearch", "math"}
    /\ \/ /\ \E results \in similarity_search(faiss_index, TopK) :
                context' = { faiss_index[i] : i \in { j \in results : faiss_index[j].page_content # "" } }
          /\ \E r \in ModelReplies : Return("handle_llm", r)
          /\ calls' = Append(calls, Call("model", user_input))
       \/ /\ Raise("handle_llm:raised")
          /\ calls' = Append(calls, Call("model", user_input))
          /\ UNCHANGED << response, context >>
       \/ /\ Raise("handle_llm:raised")
          /\ UNCHANGED << calls, response, context >>
    /\ UNCHANGED << unsaved, cleared_at, groq_api_key, tools, faiss_index, disk, user_input,
                    chosen_tool, now, lines, line, store0, disk0 >>
    /\ UNCHANGED other_vars

\* self.faiss_index.add_texts([response], metadatas=[{"source": "assistant", ...}])
AddResponse ==
    /\ pc = "add_response"
    /\ now' = now + 1
    /\ \/ /\ faiss_index' = add_texts(faiss_index, response, "assistant", now)
          /\ Log("add_texts:assistant")
          /\ pc' = "save_local"
          /\ UNCHANGED outcome
       \/ /\ Raise("add_texts:assistant:raised")
          /\ UNCHANGED faiss_index
    /\ context' = {}
    /\ UNCHANGED << calls, unsaved, cleared_at, groq_api_key, tools, disk, user_input, chosen_tool, response,
                    lines, line, store0, disk0 >>
    /\ UNCHANGED other_vars

\* save_local that reports success without writing
SaveLocal_not_written ==
    /\ pc = "save_local"
    /\ Log("save_local")
    /\ pc' = "print"
    /\ unsaved' = << >>
    /\ UNCHANGED << calls, cleared_at, groq_api_key, tools, faiss_index, disk, user_input,
                    chosen_tool, response, context, now, lines, line, outcome, store0, disk0 >>
    /\ UNCHANGED other_vars

\* the two documents the turn appended to the index
TurnDocuments(index) == << index[Len(index) - 1], index[Len(index)] >>

\* save_local that adds the documents of the turn to the snapshot it finds
SaveLocal_incremental ==
    /\ pc = "save_local"
    /\ \/ /\ disk' = (IF disk = NoIndex THEN from_texts ELSE disk) \o TurnDocuments(faiss_index)
          /\ Log("save_local")
          /\ pc' = "print"
          /\ unsaved' = << >>
          /\ UNCHANGED outcome
       \/ /\ Raise("save_local:raised")
          /\ unsaved' = unsaved \o TurnDocuments(faiss_index)
          /\ UNCHANGED disk
    /\ UNCHANGED << calls, cleared_at, groq_api_key, tools, faiss_index, user_input, chosen_tool,
                    response, context, now, lines, line, store0, disk0 >>
    /\ UNCHANGED other_vars

\* self.faiss_index.save_local(self.index_path)
SaveLocal ==
    /\ pc = "save_local"
    /\ \/ /\ disk' = faiss_index
          /\ Log("save_local")
          /\ pc' = "print"
          /\ unsaved' = << >>
          /\ UNCHANGED outcome
       \/ /\ Raise("save_local:raised")
          /\ unsaved' = unsaved \o TurnDocuments(faiss_index)
          /\ UNCHANGED disk
    /\ UNCHANGED << calls, cleared_at, groq_api_key, tools, faiss_index, user_input, chosen_tool,
                    response, context, now, lines, line, store0, disk0 >>
    /\ UNCHANGED other_vars

\* return response; print(response)
PrintResponse ==
    /\ pc = "print"
    /\ Log("print")
    /\ outcome' = "ok"
    /\ pc' = "AwaitingInput"
    /\ UNCHANGED << calls, unsaved, cleared_at, groq_api_key, tools, faiss_index, disk, user_input, chosen_tool,
                    response, context, now, lines, line, store0, disk0 >>
    /\ UNCHANGED other_vars

\* ----------------------------------------------------------------------
\* leaving the loop other than by an exit token, and running again
\* ----------------------------------------------------------------------
InLoop ==
    pc \in {"AwaitingInput", "add_input", "pick_tool", "handler", "add_response",
            "save_local", "print"}

\* except KeyboardInterrupt: print(...); break
KeyboardInterrupt ==
    /\ InLoop
    /\ pc' = "Shutdown"
    /\ outcome' = "interrupt"
    /\ UNCHANGED << calls, unsaved, cleared_at, groq_api_key, tools, faiss_index, disk, user_input, chosen_tool,
                    response, context, now, lines, line, events, store0, disk0 >>
    /\ UNCHANGED other_vars

\* the program is started again: a new MCPChatServer, the same disk
Restart ==
    /\ pc = "Shutdown"
    /\ pc' = "initialize"
    /\ groq_api_key' \in BOOLEAN
    /\ tools' = {}
    /\ faiss_index' = NoIndex
    /\ user_input' = ""
    /\ chosen_tool' = None
    /\ response' = None
    /\ context' = {}
    /\ line' = None
    /\ events' = << >>
    /\ outcome' = "none"
    /\ store0' = NoIndex
    /\ disk0' = disk
    /\ calls' = << >>
    /\ unsaved' = << >>
    /\ UNCHANGED << disk, now, lines, cleared_at >>
    /\ UNCHANGED other_vars

Next ==
    \/ InitializeNoKey
    \/ InitializeRaises
    \/ InitializeOk
    \/ EmptyLine
    \/ ExitLine
    \/ ClearLine
    \/ StartQuery
    \/ AddUserInput
    \/ Route
    \/ HandleWebsearch
    \/ HandleMath
    \/ HandleLlm
    \/ AddResponse
    \/ SaveLocal
    \/ PrintResponse
    \/ KeyboardInterrupt
    \/ Restart

Spec == Init /\ [][Next]_vars

\* ----------------------------------------------------------------------
\* The router on its own: pick_tool applied to every text of up to
\* MaxWords words of Vocab
\* ----------------------------------------------------------------------
Vocab ==
    { "hi", "x", "NEWS", "news", "latest", "who", "won", "know", "send", "Email",
      "mailbox", "play", "Play", "display", "song", "solve", "MATH", "simplify" }

\* whole sentences, among them the examples of the specification
Phrases ==
    { "what's the latest news", "send a song in email", "Send A Song In Email",
      "send the latest song by email", "play the song I got by mail today",
      "calculate 2+2", "I know the display is on" }

RECURSIVE JoinWords(_)
JoinWords(ws) ==
    IF Len(ws) = 1 THEN ws[1] ELSE ws[1] \o " " \o JoinWords(Tail(ws))

Texts ==
    Phrases \cup UNION { { JoinWords(ws) : ws \in [1..n -> Vocab] } : n \in 1..MaxWords }

RouterInit ==
    /\ pc = "router"
    /\ groq_api_key = TRUE
    /\ tools = {}
    /\ faiss_index = NoIndex
    /\ disk = NoIndex
    /\ user_input \in Texts
    /\ chosen_tool = None
    /\ response = None
    /\ context = {}
    /\ now = 1
    /\ lines = 0
    /\ line = None
    /\ events = << >>
    /\ outcome = "none"
    /\ store0 = NoIndex
    /\ disk0 = NoIndex
    /\ cleared_at = 0
    /\ calls = << >>
    /\ unsaved = << >>
    /\ OthersIdle

RouterStep ==
    /\ pc = "router"
    /\ chosen_tool' = pick_tool(user_input)
    /\ pc' = "routed"
    /\ UNCHANGED << calls, unsaved, cleared_at, groq_api_key, tools, faiss_index, disk, user_input, response, context,
                    now, lines, line, events, outcome, store0, disk0 >>
    /\ UNCHANGED other_vars

RouterNext == RouterStep

RouterSpec == RouterInit /\ [][RouterNext]_vars

\* ----------------------------------------------------------------------
\* The solve_math tool of mathserver.py: one call, statement by statement.
\* The language model's answer is a text; what json.loads makes of it is
\* described by its form: whether text surrounds the JSON value, and the
\* value itself (an object, a list, braces that are no JSON, no JSON at all)
\* ----------------------------------------------------------------------
Absent == "<absent>"

Queries == { "Solve x^2 - 4 = 0", "differentiate x^2" }

\* the objects the model may answer with: any key may be missing
Tasks == { Absent, "solve_equation", "differentiate" }
Expressions == { Absent, "x^2 - 4", "x^2 - 4 = 0", " x - 2=0 " }
VariableLists == { Absent, << >>, << "x" >>, << "x", "y" >> }

JsonObjects ==
    [type : {"object"}, task : Tasks, expression : Expressions, variables : VariableLists]

JsonList == [type |-> "list"]
BrokenJson == [type |-> "broken"]
NoJson == [type |-> "none"]

Contents ==
    [wrapped : BOOLEAN, json : JsonObjects \cup {JsonList, BrokenJson, NoJson}]

EndsWith(s, suffix) ==
    Len(s) >= Len(suffix) /\ SubSeq(s, Len(s) - Len(suffix) + 1, Len(s)) = suffix

\* str.replace(old, new) for a one-character old
RECURSIVE Replace(_, _, _)
Replace(s, old, new) ==
    IF Len(s) = 0 THEN ""
    ELSE (IF SubSeq(s, 1, 1) = old THEN new ELSE SubSeq(s, 1, 1))
             \o Replace(SubSeq(s, 2, Len(s)), old, new)

\* the cleaning of parsed["expression"] in extract_math_with_llm
CleanExpression(expr) ==
    LET stripped == Strip(expr)
        cut == IF EndsWith(stripped, "= 0")
               THEN Strip(SubSeq(stripped, 1, Len(stripped) - 3))
               ELSE IF EndsWith(stripped, "=0")
               THEN Strip(SubSeq(stripped, 1, Len(stripped) - 2))
               ELSE stripped
    IN  Replace(cut, "^", "**")

MathInit ==
    /\ mpc = "call_llm"
    /\ math_query \in Queries
    /\ content = None
    /\ parsed = None
    /\ expression = None
    /\ variables = None
    /\ stages = << >>
    /\ math_result = None
    /\ pc = "idle"
    /\ groq_api_key \in BOOLEAN
    /\ tools = {}
    /\ faiss_index = NoIndex
    /\ disk = NoIndex
    /\ user_input = ""
    /\ chosen_tool = None
    /\ response = None
    /\ context = {}
    /\ now = 1
    /\ lines = 0
    /\ line = None
    /\ events = << >>
    /\ outcome = "none"
    /\ store0 = NoIndex
    /\ disk0 = NoIndex
    /\ cleared_at = 0
    /\ calls = << >>
    /\ unsaved = << >>
    /\ TwoIdle
    /\ ServerIdle

\* an exception leaves solve_math
MathRaise(exception) ==
    /\ math_result' = [raised |-> exception, value |-> None]
    /\ mpc' = "done"
    /\ UNCHANGED stages

\* return {...}
MathReturn(dict) ==
    /\ math_result' = [raised |-> None, value |-> dict]
    /\ mpc' = "done"

Pass(stage, next) ==
    /\ stages' = Append(stages, stage)
    /\ mpc' = next
    /\ UNCHANGED math_result

\* call_llm: no key, or a status other than 200, or a reply of another
\* shape raise RuntimeError; otherwise the reply's content is returned
CallLlm ==
    /\ mpc = "call_llm"
    /\ \/ /\ ~groq_api_key
          /\ MathRaise("RuntimeError")
          /\ UNCHANGED content
       \/ /\ groq_api_key
          /\ \/ /\ MathRaise("RuntimeError")
                /\ UNCHANGED content
             \/ /\ content' \in Contents
                /\ Pass("call_llm", "json_loads")
    /\ UNCHANGED << math_query, parsed, expression, variables >>
    /\ UNCHANGED math_frame

\* json.loads(response), else json.loads of the text from the first "{" to
\* the last "}", else ValueError("LLM did not return valid JSON")
JsonLoads ==
    /\ mpc = "json_loads"
    /\ IF ~content.wrapped /\ content.json.type \in {"object", "list"}
       THEN /\ parsed' = content.json
            /\ Pass("json_loads", "clean")
       ELSE IF content.json.type = "object"
       THEN /\ parsed' = content.json
            /\ Pass("json_loads", "clean")
       ELSE /\ MathRaise("ValueError")
            /\ UNCHANGED parsed
    /\ UNCHANGED << math_query, content, expression, variables >>
    /\ UNCHANGED math_frame

\* if "expression" in parsed: parsed["expression"] = the cleaned expression
Clean ==
    /\ mpc = "clean"
    /\ parsed' = IF parsed.type = "object" /\ parsed.expression # Absent
                 THEN [parsed EXCEPT !.expression = CleanExpression(parsed.expression)]
                 ELSE parsed
    /\ Pass("extract_math_with_llm", "task")
    /\ UNCHANGED << math_query, content, expression, variables >>
    /\ UNCHANGED math_frame

\* if parsed.get("task") != "solve_equation": return {"error": ...}
\* (a list has no get: AttributeError)
CheckTask ==
    /\ mpc = "task"
    /\ IF parsed.type # "object"
       THEN MathRaise("AttributeError")
       ELSE IF parsed.task # "solve_equation"
       THEN /\ MathReturn([error |-> "Only equation solving is supported in this tool."])
            /\ UNCHANGED stages
       ELSE Pass("task", "fields")
    /\ UNCHANGED << math_query, content, parsed, expression, variables >>
    /\ UNCHANGED math_frame

\* expression = parsed["expression"]; variables = parsed["variables"]
ReadFields ==
    /\ mpc = "fields"
    /\ IF parsed.expression = Absent \/ parsed.variables = Absent
       THEN /\ MathRaise("KeyError")
            /\ UNCHANGED << expression, variables >>
       ELSE /\ expression' = parsed.expression
            /\ variables' = parsed.variables
            /\ Pass("fields", "count")
    /\ UNCHANGED << math_query, content, parsed >>
    /\ UNCHANGED math_frame

\* if len(variables) != 1: return {"error": ...}
CheckVariables ==
    /\ mpc = "count"
    /\ IF Len(variables) # 1
       THEN /\ MathReturn([error |-> "Only single-variable equations are supported."])
            /\ UNCHANGED stages
       ELSE Pass("count", "validate")
    /\ UNCHANGED << math_query, content, parsed, expression, variables >>
    /\ UNCHANGED math_frame

\* a stage in try/except Exception: it passes, or its error is returned
Guarded(stage, next, message) ==
    /\ mpc = stage
    /\ \/ Pass(stage, next)
       \/ /\ MathReturn([error |-> message])
          /\ UNCHANGED stages
    /\ UNCHANGED << math_query, content, parsed, expression, variables >>
    /\ UNCHANGED math_frame

\* validate_expression(expression, variables)
Validate == Guarded("validate", "build", "Invalid mathematical expression")

\* func = build_numeric_function(expression, var)
Build == Guarded("build", "solve", "Failed to build numeric function")

\* solutions = solve_numerically(func)
Solve == Guarded("solve", "return", "Numerical solver failed")

\* return {"query": ..., "expression": ..., "variable": ..., "solutions": ..., "method": ...}
ReturnSolutions ==
    /\ mpc = "return"
    /\ MathReturn([query |-> math_query,
                   expression |-> expression \o " = 0",
                   variable |-> variables[1],
                   solutions |-> << 2 >>,
                   method |-> "numerical (SciPy fsolve)"])
    /\ UNCHANGED << math_query, content, parsed, expression, variables, stages >>
    /\ UNCHANGED math_frame

MathNext ==
    \/ CallLlm
    \/ JsonLoads
    \/ Clean
    \/ CheckTask
    \/ ReadFields
    \/ CheckVariables
    \/ Validate
    \/ Build
    \/ Solve
    \/ ReturnSolutions

MathSpec == MathInit /\ [][MathNext]_vars

\* ----------------------------------------------------------------------
\* Two MCPChatServer processes started in the same directory: each has its
\* own faiss_index, both load and save the one index_path. A step is one
\* statement of initialize or process_query of one of them.
\* ----------------------------------------------------------------------
Instances == {1, 2}

TwoInit ==
    /\ ipc = [i \in Instances |-> "initialize"]
    /\ istore = [i \in Instances |-> NoIndex]
    /\ snapshot = NoIndex
    /\ iturns = [i \in Instances |-> 0]
    /\ iclock = 1
    /\ persisted = [i \in Instances |-> {}]
    /\ last_writer = 0
    /\ ChatIdle
    /\ MathIdle
    /\ ServerIdle

\* the instance's statement raised: run() prints the error and reads on
InstRaise(i) ==
    /\ ipc' = [ipc EXCEPT ![i] = "AwaitingInput"]
    /\ UNCHANGED << istore, snapshot, persisted, last_writer >>

\* initialize: load the snapshot if index_path exists, else a fresh index
InstInitialize(i) ==
    /\ ipc[i] = "initialize"
    /\ \/ /\ istore' = [istore EXCEPT ![i] = IF snapshot # NoIndex THEN snapshot ELSE from_texts]
          /\ ipc' = [ipc EXCEPT ![i] = "AwaitingInput"]
       \/ /\ ipc' = [ipc EXCEPT ![i] = "Shutdown"]
          /\ UNCHANGED istore
    /\ UNCHANGED << snapshot, iturns, iclock, persisted, last_writer >>
    /\ UNCHANGED two_frame

\* a line is read and process_query adds it to the instance's index
InstAddUserInput(i) ==
    /\ ipc[i] = "AwaitingInput"
    /\ iturns[i] < MaxTurns
    /\ iturns' = [iturns EXCEPT ![i] = @ + 1]
    /\ iclock' = iclock + 1
    /\ \/ /\ istore' = [istore EXCEPT ![i] = add_texts(@, "hi", "user", iclock)]
          /\ ipc' = [ipc EXCEPT ![i] = "handler"]
          /\ UNCHANGED << snapshot, persisted, last_writer >>
       \/ InstRaise(i)
    /\ UNCHANGED two_frame

\* pick_tool and the handler: the response, or an exception
InstHandler(i) ==
    /\ ipc[i] = "handler"
    /\ \/ /\ ipc' = [ipc EXCEPT ![i] = "add_response"]
          /\ UNCHANGED << istore, snapshot, persisted, last_writer >>
       \/ InstRaise(i)
    /\ UNCHANGED << iturns, iclock >>
    /\ UNCHANGED two_frame

\* the response is added to the instance's index
InstAddResponse(i) ==
    /\ ipc[i] = "add_response"
    /\ iclock' = iclock + 1
    /\ \/ /\ \E r \in ModelReplies :
                istore' = [istore EXCEPT ![i] = add_texts(@, r, "assistant", iclock)]
          /\ ipc' = [ipc EXCEPT ![i] = "save_local"]
          /\ UNCHANGED << snapshot, persisted, last_writer >>
       \/ InstRaise(i)
    /\ UNCHANGED iturns
    /\ UNCHANGED two_frame

\* save_local that adds the instance's new documents to the snapshot it finds
InstSaveLocal_merging(i) ==
    /\ ipc[i] = "save_local"
    /\ \/ /\ snapshot' = (IF snapshot = NoIndex THEN from_texts ELSE snapshot)
                             \o TurnDocuments(istore[i])
          /\ persisted' = [persisted EXCEPT ![i] =
                              @ \cup { TurnDocuments(istore[i])[k] : k \in 1..2 }]
          /\ last_writer' = i
          /\ ipc' = [ipc EXCEPT ![i] = "AwaitingInput"]
          /\ UNCHANGED istore
       \/ InstRaise(i)
    /\ UNCHANGED << iturns, iclock >>
    /\ UNCHANGED two_frame

\* self.faiss_index.save_local(self.index_path): the instance's whole index
\* replaces what is at index_path; the response is returned and printed
InstSaveLocal(i) ==
    /\ ipc[i] = "save_local"
    /\ \/ /\ snapshot' = istore[i]
          /\ persisted' = [persisted EXCEPT ![i] =
                              @ \cup { TurnDocuments(istore[i])[k] : k \in 1..2 }]
          /\ last_writer' = i
          /\ ipc' = [ipc EXCEPT ![i] = "AwaitingInput"]
          /\ UNCHANGED istore
       \/ InstRaise(i)
    /\ UNCHANGED << iturns, iclock >>
    /\ UNCHANGED two_frame

\* an exit token: the loop is left without a save
InstExit(i) ==
    /\ ipc[i] = "AwaitingInput"
    /\ ipc' = [ipc EXCEPT ![i] = "Shutdown"]
    /\ UNCHANGED << istore, snapshot, iturns, iclock, persisted, last_writer >>
    /\ UNCHANGED two_frame

TwoNext ==
    \E i \in Instances :
        \/ InstInitialize(i)
        \/ InstAddUserInput(i)
        \/ InstHandler(i)
        \/ InstAddResponse(i)
        \/ InstSaveLocal(i)
        \/ InstExit(i)

TwoSpec == TwoInit /\ [][TwoNext]_vars

\* ----------------------------------------------------------------------
\* The web server (server.py): the startup event and the POST /chat and
\* POST /clear requests are coroutines on one event loop. A step is what a
\* task does from one await to the next: it begins, or the call it awaits
\* returns or raises. The names of mcp_components and of the local variable
\* components are bound to dicts; clear_chat changes a dict in place,
\* initialize_mcp binds the global name to a new dict.
\* ----------------------------------------------------------------------
\* uvicorn runs the startup event before it serves a request, and exits
\* when the startup event fails
Startup == 0
Requests == 1..MaxRequests
TaskIds == {Startup} \cup Requests

Kinds == {"chat", "clear"}
Messages == {"hi", "  "}

\* FAISS.from_texts(["initial text"], embeddings)
ServerPlaceholder == Document("initial text", "none", 0)

\* a task that has not answered
NoReply == [http |-> 0, status |-> "none", response |-> ""]

ServerInit ==
    /\ mcp_initialized = FALSE
    /\ mcp_components = 0
    /\ dicts = << >>
    /\ index_file \in {NoIndex, << ServerPlaceholder >>}
    /\ tpc = [t \in TaskIds |-> "new"]
    /\ tkind = [t \in TaskIds |-> IF t = Startup THEN "startup" ELSE None]
    /\ tmsg = [t \in TaskIds |-> None]
    /\ components = [t \in TaskIds |-> 0]
    /\ reply = [t \in TaskIds |-> NoReply]
    /\ sclock = 1
    /\ docs_of = [t \in TaskIds |-> {}]
    /\ tcalls = [t \in TaskIds |-> << >>]
    /\ saves = [t \in TaskIds |-> 0]
    /\ cleared_over = {}
    /\ builds = 0
    /\ ChatIdle
    /\ MathIdle
    /\ TwoIdle

\* return ChatResponse(response=f"Oops yaar! Something went wrong: {str(e)}", status="error")
ChatError(detail) ==
    [http |-> 200, status |-> "error",
     response |-> "Oops yaar! Something went wrong: " \o detail]

\* return ChatResponse(response=response_content, status="success")
ChatSuccess(r) == [http |-> 200, status |-> "success", response |-> r]

\* raise HTTPException(status_code=code, detail=detail), not caught
HttpError(code, detail) == [http |-> code, status |-> "error", response |-> detail]

ClearSuccess ==
    [http |-> 200, status |-> "success", response |-> "Chat history cleared successfully!"]

\* the task ends with the answer r
Finish(t, r) ==
    /\ reply' = [reply EXCEPT ![t] = r]
    /\ tpc' = [tpc EXCEPT ![t] = "done"]

\* initialize_mcp raised HTTPException(500): the startup event fails with
\* it, chat_endpoint's except Exception turns it into an error answer,
\* clear_chat's except Exception wraps it in another HTTPException(500)
InitFailed(t, kind) ==
    /\ Finish(t, IF kind = "chat"
                 THEN ChatError("500: Failed to initialize MCP")
                 ELSE HttpError(500, "Failed to initialize MCP"))
    /\ UNCHANGED << mcp_initialized, mcp_components, dicts, index_file, components,
                    sclock, docs_of, tcalls, saves, cleared_over, builds >>

\* chat_endpoint from `components = mcp_components` to `await agent.ainvoke`,
\* with mcp_components bound to dict c of D
ChatBody(t, msg, D, c) ==
    /\ components' = [components EXCEPT ![t] = c]
    /\ UNCHANGED << index_file, saves, cleared_over >>
    /\ IF Strip(msg) = ""
       THEN /\ Finish(t, ChatError("400: Message cannot be empty"))
            /\ dicts' = D
            /\ UNCHANGED << sclock, docs_of, tcalls >>
       ELSE \/ /\ dicts' = [D EXCEPT ![c].faiss_index = add_texts(@, Strip(msg), "user", sclock)]
               /\ docs_of' = [docs_of EXCEPT ![t] = @ \cup {Document(Strip(msg), "user", sclock)}]
               /\ sclock' = sclock + 1
               /\ tcalls' = [tcalls EXCEPT ![t] = Append(@, "agent")]
               /\ tpc' = [tpc EXCEPT ![t] = "agent"]
               /\ UNCHANGED reply
            \/ /\ Finish(t, ChatError("add_texts"))
               /\ dicts' = D
               /\ UNCHANGED << sclock, docs_of, tcalls >>

\* clear_chat from `components = mcp_components` to its return, with
\* mcp_components bound to dict c of D; from_texts or save_local may raise
ClearBody(t, D, c) ==
    /\ components' = [components EXCEPT ![t] = c]
    /\ UNCHANGED << sclock, docs_of, tcalls >>
    /\ \/ /\ dicts' = [D EXCEPT ![c].faiss_index = << ServerPlaceholder >>]
          /\ index_file' = << ServerPlaceholder >>
          /\ saves' = [saves EXCEPT ![t] = @ + 1]
          /\ cleared_over' = cleared_over \cup
                 { u \in Requests \ {t} : tpc[u] # "new" /\ tkind[u] = "chat" }
          /\ Finish(t, ClearSuccess)
       \/ /\ dicts' = [D EXCEPT ![c].faiss_index = << ServerPlaceholder >>]
          /\ Finish(t, HttpError(500, "Failed to clear history: save_local"))
          /\ UNCHANGED << index_file, saves, cleared_over >>
       \/ /\ dicts' = D
          /\ Finish(t, HttpError(500, "Failed to clear history: from_texts"))
          /\ UNCHANGED << index_file, saves, cleared_over >>

\* the startup event has returned: uvicorn serves requests
Serving == tpc[Startup] = "done" /\ reply[Startup] = NoReply

\* the frame of a task suspended in get_tools
Suspend(t) ==
    /\ tpc' = [tpc EXCEPT ![t] = "get_tools"]
    /\ UNCHANGED << mcp_initialized, mcp_components, dicts, index_file, components, reply,
                    sclock, docs_of, tcalls, saves, cleared_over, builds >>

\* the startup event awaits initialize_mcp, which fails before its await
\* (GROQ_API_KEY) or is suspended in get_tools
startup_event ==
    /\ tpc[Startup] = "new"
    /\ \/ InitFailed(Startup, "startup")
       \/ Suspend(Startup)
    /\ UNCHANGED << tkind, tmsg >>
    /\ UNCHANGED server_frame

\* a request begins. With mcp_initialized false it enters initialize_mcp;
\* with it true it runs on to its first await or to its end.
Begin(t) ==
    /\ tpc[t] = "new"
    /\ Serving
    /\ \E kind \in Kinds, msg \in Messages :
          /\ kind = "clear" => msg = "hi"
          /\ tkind' = [tkind EXCEPT ![t] = kind]
          /\ tmsg' = [tmsg EXCEPT ![t] = IF kind = "chat" THEN msg ELSE None]
          /\ IF ~mcp_initialized
             THEN \/ InitFailed(t, kind)
                  \/ Suspend(t)
             ELSE /\ IF kind = "chat"
                     THEN ChatBody(t, msg, dicts, mcp_components)
                     ELSE ClearBody(t, dicts, mcp_components)
                  /\ UNCHANGED << mcp_initialized, mcp_components, builds >>
    /\ UNCHANGED server_frame

\* the dict initialize_mcp builds: the index loaded from the snapshot if
\* there is one, else a fresh one
NewComponents ==
    [faiss_index |-> IF index_file # NoIndex THEN index_file ELSE << ServerPlaceholder >>]

\* initialize_mcp that builds the components and leaves the flag unset
GetToolsReturns_flag_unset(t) ==
    /\ tpc[t] = "get_tools"
    /\ \/ InitFailed(t, tkind[t])
       \/ /\ mcp_initialized' = FALSE
          /\ mcp_components' = Len(dicts) + 1
          /\ builds' = builds + 1
          /\ CASE tkind[t] = "startup" ->
                    /\ dicts' = Append(dicts, NewComponents)
                    /\ tpc' = [tpc EXCEPT ![t] = "done"]
                    /\ UNCHANGED << index_file, components, reply, sclock, docs_of, tcalls,
                                    saves, cleared_over >>
               [] tkind[t] = "chat" ->
                    ChatBody(t, tmsg[t], Append(dicts, NewComponents), Len(dicts) + 1)
               [] tkind[t] = "clear" ->
                    ClearBody(t, Append(dicts, NewComponents), Len(dicts) + 1)
    /\ UNCHANGED << tkind, tmsg >>
    /\ UNCHANGED server_frame

\* get_tools returns or raises in initialize_mcp. When it returns the
\* components are built, mcp_components is bound to the new dict, the flag
\* is set, and the caller runs on to its next await or to its end.
GetToolsReturns(t) ==
    /\ tpc[t] = "get_tools"
    /\ \/ InitFailed(t, tkind[t])
       \/ /\ mcp_initialized' = TRUE
          /\ mcp_components' = Len(dicts) + 1
          /\ builds' = builds + 1
          /\ CASE tkind[t] = "startup" ->
                    /\ dicts' = Append(dicts, NewComponents)
                    /\ tpc' = [tpc EXCEPT ![t] = "done"]
                    /\ UNCHANGED << index_file, components, reply, sclock, docs_of, tcalls,
                                    saves, cleared_over >>
               [] tkind[t] = "chat" ->
                    ChatBody(t, tmsg[t], Append(dicts, NewComponents), Len(dicts) + 1)
               [] tkind[t] = "clear" ->
                    ClearBody(t, Append(dicts, NewComponents), Len(dicts) + 1)
    /\ UNCHANGED << tkind, tmsg >>
    /\ UNCHANGED server_frame

\* agent.ainvoke returns or raises; then model.ainvoke is awaited
AgentReturns(t) ==
    /\ tpc[t] = "agent"
    /\ \/ /\ tpc' = [tpc EXCEPT ![t] = "model"]
          /\ tcalls' = [tcalls EXCEPT ![t] = Append(@, "model")]
          /\ UNCHANGED reply
       \/ /\ Finish(t, ChatError("agent"))
          /\ UNCHANGED tcalls
    /\ UNCHANGED << mcp_initialized, mcp_components, dicts, index_file, tkind, tmsg, components,
                    sclock, docs_of, saves, cleared_over, builds >>
    /\ UNCHANGED server_frame

\* model.ainvoke returns or raises; the response is added to
\* components["faiss_index"], the index is saved, the answer returned
ModelReturns(t) ==
    /\ tpc[t] = "model"
    /\ \/ \E r \in ModelReplies :
             LET c == components[t]
                 doc == Document(r, "assistant", sclock)
                 index == add_texts(dicts[c].faiss_index, r, "assistant", sclock)
             IN  /\ dicts' = [dicts EXCEPT ![c].faiss_index = index]
                 /\ docs_of' = [docs_of EXCEPT ![t] = @ \cup {doc}]
                 /\ sclock' = sclock + 1
                 /\ \/ /\ index_file' = index
                       /\ saves' = [saves EXCEPT ![t] = @ + 1]
                       /\ Finish(t, ChatSuccess(r))
                    \/ /\ Finish(t, ChatError("save_local"))
                       /\ UNCHANGED << index_file, saves >>
       \/ /\ Finish(t, ChatError("model"))
          /\ UNCHANGED << dicts, docs_of, sclock, index_file, saves >>
    /\ UNCHANGED << mcp_initialized, mcp_components, tkind, tmsg, components, tcalls,
                    cleared_over, builds >>
    /\ UNCHANGED server_frame

ServerNext ==
    \/ startup_event
    \/ \E t \in TaskIds : GetToolsReturns(t)
    \/ \E t \in Requests :
          \/ Begin(t)
          \/ AgentReturns(t)
          \/ ModelReturns(t)

ServerSpec == ServerInit /\ [][ServerNext]_vars

\* ----------------------------------------------------------------------
\* Properties
\* ----------------------------------------------------------------------
Categories == << "websearch", "gmail", "music-player", "math" >>

KeywordsOf(category) ==
    CASE category = "websearch" -> websearch_keywords
      [] category = "gmail" -> gmail_keywords
      [] category = "music-player" -> music_keywords
      [] category = "math" -> math_keywords

\* some keyword of the category occurs in the case-folded text
Matches(category, text) ==
    \E kw \in KeywordsOf(category) : Contains(Lower(text), kw)

\* C2: pick_tool returns the first category, in the order web-search, mail,
\* music, math, one of whose keywords is contained in the case-folded text,
\* and the direct-LLM category exactly when no keyword is contained; a text
\* with a web-search keyword is always routed to web-search.
C2_FirstMatchWins ==
    pc = "routed" =>
        /\ \A i \in 1..Len(Categories) :
              chosen_tool = Categories[i] <=>
                  /\ Matches(Categories[i], user_input)
                  /\ \A j \in 1..(i - 1) : ~Matches(Categories[j], user_input)
        /\ chosen_tool = "llm" <=>
              \A i \in 1..Len(Categories) : ~Matches(Categories[i], user_input)
        /\ Matches("websearch", user_input) => chosen_tool = "websearch"

\* a text with a mail and a music keyword, in upper case, was routed to mail
C2_Witness ==
    /\ pc = "routed"
    /\ user_input = "song Email"
    /\ chosen_tool = "gmail"

\* ----------------------------------------------------------------------
\* The turn of process_query
\* ----------------------------------------------------------------------
Handlers == {"handle_websearch", "handle_math", "handle_llm"}

TurnOrder(handler) ==
    << "add_texts:user", "pick_tool", handler, "add_texts:assistant", "save_local", "print" >>

IsPrefix(s, t) == Len(s) <= Len(t) /\ \A i \in 1..Len(s) : s[i] = t[i]

Count(e, log) == Cardinality({ i \in 1..Len(log) : log[i] = e })

Last(s) == s[Len(s)]

\* C1: in a Processing turn the operations happen in the order: append the
\* input document, ask the router, run the handler, append the output
\* document, persist, display; when the store is persisted it ends with the
\* input and then the output document of the turn, and the output is
\* displayed only after that persist.
C1_TurnOrder ==
    outcome \in {"processing", "ok"} =>
        /\ \E h \in Handlers : IsPrefix(events, TurnOrder(h))
        /\ outcome = "ok" => \E h \in Handlers : events = TurnOrder(h)
        /\ Count("save_local", events) = 1 =>
              /\ disk = faiss_index
              /\ Len(disk) >= 3
              /\ disk[Len(disk) - 1] = Document(user_input, "user", disk[Len(disk) - 1].timestamp)
              /\ disk[Len(disk)] = Document(response, "assistant", disk[Len(disk)].timestamp)
              /\ disk[Len(disk) - 1].timestamp < disk[Len(disk)].timestamp

\* a turn routed to the language model ran to its end
C1_Witness ==
    /\ outcome = "ok"
    /\ pc = "AwaitingInput"
    /\ events = TurnOrder("handle_llm")
    /\ Last(disk).page_content \in ModelReplies

\* the handler the registry binds to a category
BoundHandler(category) ==
    CASE category = "websearch" -> "handle_websearch"
      [] category = "gmail" -> "handle_gmail"
      [] category = "music-player" -> "handle_music"
      [] category = "math" -> "handle_math"
      [] category = "llm" -> "handle_llm"

\* the handler that ran in the turn, once it returned or raised
HandlerRun ==
    IF Len(events) >= 3
    THEN IF events[3] \in Handlers THEN events[3]
         ELSE CHOOSE h \in Handlers : events[3] = h \o ":raised"
    ELSE None

\* C3: the turn is dispatched to the handler bound to the category the
\* router returned; only direct-LLM-routed inputs reach the LLM handler.
C3_DispatchFollowsRouter ==
    (outcome \in {"processing", "ok"} /\ Len(events) >= 3) =>
        /\ HandlerRun = BoundHandler(chosen_tool)
        /\ HandlerRun = "handle_llm" => chosen_tool = "llm"

\* C4: an exit token makes the loop persist the store exactly once and
\* then move to Shutdown.
C4_ExitPersistsOnce ==
    (line # None /\ Lower(Strip(line)) \in {"exit", "quit", "q"} /\ outcome = "exit") =>
        /\ pc = "Shutdown"
        /\ Count("save_local", events) = 1
        /\ disk = faiss_index

\* an event of the form "<operation>:raised" ends the log
RaisedIn(log) ==
    /\ Len(log) >= 1
    /\ Last(log) \in {"add_texts:user:raised", "handle_websearch:raised",
                      "handle_math:raised", "handle_llm:raised",
                      "add_texts:assistant:raised", "save_local:raised",
                      "from_texts:raised"}

\* the handler of the turn raised
HandlerRaised ==
    /\ Len(events) = 3
    /\ events[3] \in {"handle_websearch:raised", "handle_math:raised", "handle_llm:raised"}

\* C5: an error raised by a handler or a memory-store operation during a
\* Processing turn is caught by the loop: the loop is back at AwaitingInput
\* (and is there still unless the user interrupts), never at Shutdown on
\* account of the error.
C5_ErrorResumesLoop ==
    RaisedIn(events) =>
        /\ outcome \in {"error", "interrupt"}
        /\ outcome = "error" => pc = "AwaitingInput"

\* after a turn whose handler raised, a further line was read and its turn
\* ran to the end
C5_Witness ==
    /\ outcome = "ok"
    /\ lines = 2
    /\ Len(faiss_index) = 4
    /\ faiss_index[2].source = "user"
    /\ faiss_index[3].source = "user"
    /\ faiss_index[4].source = "assistant"

\* C6: a turn whose handler raised performs no persist: the snapshot is
\* the one that was on disk when the turn's line was read.
C6_HandlerErrorNoPersist ==
    HandlerRaised =>
        /\ disk = disk0
        /\ Count("save_local", events) = 0

\* the handler of the second turn raised, the first turn had been persisted
C6_Witness ==
    /\ outcome = "error"
    /\ HandlerRaised
    /\ Len(disk) = 3
    /\ Len(faiss_index) = 4

\* the placeholder followed by complete turns only
CompleteTurnsOnly(index) ==
    /\ Len(index) % 2 = 1
    /\ index[1] = Placeholder
    /\ \A i \in 2..Len(index) :
          IF i % 2 = 0
          THEN index[i].source = "user"
          ELSE /\ index[i].source = "assistant"
               /\ index[i].timestamp = index[i - 1].timestamp + 1

\* C7: every persisted snapshot is the placeholder followed only by
\* complete turns, a user document immediately followed by the assistant
\* document of the same turn.
C7_SnapshotHasCompleteTurnsOnly ==
    disk # NoIndex => CompleteTurnsOnly(disk)

\* the clear command was typed, in any letter case
ClearTyped == line # None /\ Lower(Strip(line)) = "clear"

\* C8: on "clear" (any letter case) no handler is invoked and, unless
\* building the fresh index raises, the store is replaced by a fresh one
\* holding only the placeholder, so that a search returns at most the
\* placeholder; when the clear has run to its end the snapshot holds only
\* the placeholder too and the loop is at AwaitingInput; from then on
\* neither the store nor the snapshot holds a document written before the
\* clear.
C8_ClearResetsStore ==
    /\ ClearTyped =>
          /\ outcome \in {"clear", "error", "interrupt"}
          /\ \A i \in 1..Len(events) :
                events[i] \in {"from_texts", "from_texts:raised", "save_local", "save_local:raised"}
          /\ chosen_tool = None /\ response = None
          /\ ~RaisedIn(events) => outcome \in {"clear", "interrupt"}
          /\ events # << "from_texts:raised" >> =>
                /\ faiss_index = << Placeholder >>
                /\ \A ks \in similarity_search(faiss_index, TopK) :
                      \A i \in ks : faiss_index[i] = Placeholder
          /\ outcome = "clear" =>
                /\ pc = "AwaitingInput"
                /\ events = << "from_texts", "save_local" >>
                /\ disk = << Placeholder >>
    /\ cleared_at > 0 =>
          \A index \in {faiss_index, disk} :
              \A i \in 1..Len(index) :
                  index[i] = Placeholder \/ index[i].timestamp >= cleared_at

\* a clear typed in capitals was carried out on a store and a snapshot
\* that held a complete turn
C8_Witness ==
    /\ outcome = "clear"
    /\ line = " Clear "
    /\ Len(store0) = 3
    /\ Len(disk0) = 3
    /\ disk = << Placeholder >>

\* C9: when process_query returns a response the snapshot equals the
\* in-memory store and ends with the turn's input and output documents;
\* a restart loads exactly the snapshot.
C9_SnapshotEqualsStoreOnReturn ==
    /\ (pc = "print" \/ outcome = "ok") =>
          /\ disk = faiss_index
          /\ Len(disk) >= 3
          /\ disk[Len(disk) - 1].page_content = user_input
          /\ disk[Len(disk) - 1].source = "user"
          /\ disk[Len(disk)].page_content = response
          /\ disk[Len(disk)].source = "assistant"
    /\ (outcome = "initialized" /\ disk # NoIndex) => faiss_index = disk

\* after a completed turn the program was started again and loaded the
\* documents of that turn
C9_Witness ==
    /\ outcome = "initialized"
    /\ pc = "AwaitingInput"
    /\ Len(faiss_index) = 3
    /\ faiss_index[2].source = "user"
    /\ faiss_index[3].source = "assistant"

\* C10: an empty line (also one of blanks only) is ignored: store and
\* snapshot are as they were, nothing was routed or handled, and the loop
\* is at AwaitingInput.
C10_EmptyLineIgnored ==
    (line # None /\ line \in {"", "  "}) =>
        /\ outcome \in {"empty", "interrupt"}
        /\ events = << >>
        /\ chosen_tool = None /\ response = None
        /\ faiss_index = store0
        /\ disk = disk0
        /\ outcome = "empty" => pc = "AwaitingInput"

\* a line of blanks was read after a completed turn
C10_Witness ==
    /\ outcome = "empty"
    /\ line = "  "
    /\ Len(faiss_index) = 3
    /\ Len(disk) = 3

C12_MailAndMusicIsMail ==
    (pc = "routed" /\ Matches("gmail", user_input) /\ Matches("music-player", user_input)) =>
        chosen_tool = "gmail"

\* C12 amended: every input with both a mail keyword and a music keyword and
\* no web-search keyword is routed to mail; with a web-search keyword it is
\* routed to web-search.
C12_MailBeforeMusicAfterWebsearch ==
    (pc = "routed" /\ Matches("gmail", user_input) /\ Matches("music-player", user_input)) =>
        chosen_tool = IF Matches("websearch", user_input) THEN "websearch" ELSE "gmail"

\* the example of the specification was routed to mail
C12_Witness ==
    /\ pc = "routed"
    /\ user_input = "send a song in email"
    /\ chosen_tool = "gmail"

NotAvailableTexts == {"Web search tool not available.", "Math tool not available."}

\* C14: when the tool for the routed category is not in the registry, the
\* handler makes no external call, raises nothing and returns a "tool not
\* available" text, which is written as the assistant document, persisted
\* and displayed when the turn runs to its end.
C14_MissingToolIsNormalResult ==
    (chosen_tool \in {"websearch", "gmail", "music-player", "math"}
        /\ chosen_tool \notin tools /\ Len(events) >= 3) =>
        /\ events[3] \in Handlers
        /\ calls = << >>
        /\ response \in NotAvailableTexts
        /\ outcome = "ok" =>
              /\ Last(faiss_index) = Document(response, "assistant", Last(faiss_index).timestamp)
              /\ disk = faiss_index

\* C15: without GROQ_API_KEY the run ends with a fatal error before the
\* loop: no line is read, no tool is obtained, nothing is handled, and the
\* store is neither loaded nor created, nor is the snapshot written.
C15_NoKeyIsFatalBeforeLoop ==
    /\ (pc \notin {"initialize", "Shutdown"}) => groq_api_key
    /\ (pc = "Shutdown" /\ ~groq_api_key) =>
          /\ outcome = "fatal"
          /\ line = None
          /\ events = << >> /\ calls = << >>
          /\ tools = {}
          /\ faiss_index = NoIndex
          /\ disk = disk0

\* a run without the key, started where an earlier run had left a snapshot
C15_Witness ==
    /\ pc = "Shutdown"
    /\ outcome = "fatal"
    /\ ~groq_api_key
    /\ Len(disk) = 3

\* C16: when startup has completed the store equals the snapshot if one
\* exists and otherwise holds exactly the placeholder; the snapshot is the
\* one startup found.
C16_StartupLoadsSnapshot ==
    outcome = "initialized" =>
        /\ faiss_index = IF disk0 # NoIndex THEN disk0 ELSE << Placeholder >>
        /\ disk = disk0

\* a run started without a snapshot after an earlier run had read a line:
\* the index is fresh and no snapshot was written
C16_Witness ==
    /\ outcome = "initialized"
    /\ lines = 1
    /\ disk = NoIndex
    /\ faiss_index = << Placeholder >>

\* C17 as stated: once the loop has been entered, Shutdown is reached only
\* by an exit token.
C17_ShutdownOnlyByExit ==
    (pc = "Shutdown" /\ outcome # "fatal") => outcome = "exit"

\* C17 amended: once the loop has been entered, Shutdown is reached only
\* by an exit token or by a user interrupt; a handler error or a
\* persistence error never moves the loop to Shutdown.
C17_ShutdownByExitOrInterrupt ==
    /\ (pc = "Shutdown" /\ outcome # "fatal") => outcome \in {"exit", "interrupt"}
    /\ (pc = "Shutdown" /\ outcome = "exit") => (line # None /\ IsExit(Strip(line)))
    /\ (pc = "Shutdown" /\ outcome = "fatal") => line = None

\* the user interrupted the second line's turn after the first line's turn
\* had failed in its handler without ending the loop
C17_Witness ==
    /\ pc = "Shutdown"
    /\ outcome = "interrupt"
    /\ lines = 2
    /\ Len(events) = 3
    /\ Len(faiss_index) = 3
    /\ faiss_index[2].source = "user"
    /\ faiss_index[3].source = "user"

\* the document is one of the entries of the index
Holds(index, doc) == \E i \in 1..Len(index) : index[i] = doc

\* a step in which save_local returned: at the end of a turn, or in a clear
TurnPersists == pc = "save_local" /\ pc' = "print"
ClearPersists == lines' = lines + 1 /\ outcome' = "clear"

\* save_local raised in the turn of the last line
TurnSaveRaised == Len(events) = 5 /\ events[5] = "save_local:raised"

\* C18 as stated: when save_local raises in a turn the loop is back at
\* AwaitingInput with both documents of the turn in the store, and the next
\* save_local that succeeds, whichever it is, writes them to the snapshot.
C18_NextPersistWritesUnsaved ==
    [][(TurnPersists \/ ClearPersists) =>
          \A i \in 1..Len(unsaved) : Holds(disk', unsaved[i])]_vars

\* what holds of a turn whose save_local raised
SaveErrorRecovered ==
    TurnSaveRaised =>
        /\ pc \in {"AwaitingInput", "Shutdown"}
        /\ pc = "Shutdown" <=> outcome = "interrupt"
        /\ Len(faiss_index) = Len(store0) + 2
        /\ IsPrefix(store0, faiss_index)
        /\ TurnDocuments(faiss_index)[1] = Document(user_input, "user", faiss_index[Len(faiss_index) - 1].timestamp)
        /\ TurnDocuments(faiss_index)[2] = Document(response, "assistant", Last(faiss_index).timestamp)
        /\ disk = disk0
        /\ Len(unsaved) >= 2
        /\ SubSeq(unsaved, Len(unsaved) - 1, Len(unsaved)) = TurnDocuments(faiss_index)

\* C18 amended: after every step, when save_local has raised in the turn
\* of the last line the loop is back at AwaitingInput, the store ends with
\* the input and the output document of the turn and the snapshot is the
\* one the turn found; the store holds every document left unwritten, and,
\* unless the store is cleared first, the next save_local that succeeds at
\* the end of a turn writes every such document to the snapshot.
C18_SaveErrorRecovered ==
    [][/\ SaveErrorRecovered'
       /\ \A i \in 1..Len(unsaved') : Holds(faiss_index', unsaved'[i])
       /\ TurnPersists => \A i \in 1..Len(unsaved) : Holds(disk', unsaved[i])]_vars

\* the second turn persisted what the first turn, whose save_local raised,
\* had left unwritten
C18_Witness ==
    /\ outcome = "ok"
    /\ lines = 2
    /\ disk0 = NoIndex
    /\ Len(store0) = 3
    /\ unsaved = << >>
    /\ disk = faiss_index
    /\ Len(disk) = 5
    /\ disk[2].source = "user" /\ disk[3].source = "assistant"

\* each lower-case letter with its upper-case letter
UpperMap ==
    [c \in { SubSeq(LowerAlpha, i, i) : i \in 1..Len(LowerAlpha) } |->
        LET i == CHOOSE j \in 1..Len(LowerAlpha) : SubSeq(LowerAlpha, j, j) = c
        IN  SubSeq(UpperAlpha, i, i)]

UpperChar(c) == IF c \in DOMAIN UpperMap THEN UpperMap[c] ELSE c

RECURSIVE Upper(_)
Upper(s) ==
    IF Len(s) = 0 THEN ""
    ELSE UpperChar(SubSeq(s, 1, 1)) \o Upper(SubSeq(s, 2, Len(s)))

\* C19: the category of a text is the category of the same text in lower
\* case and of the same text in upper case, so that two texts that differ
\* only in letter case have the same category.
C19_CaseInsensitive ==
    pc = "routed" =>
        /\ chosen_tool = pick_tool(Lower(user_input))
        /\ chosen_tool = pick_tool(Upper(user_input))

\* a text with capital letters in its keywords was routed by them
C19_Witness ==
    /\ pc = "routed"
    /\ user_input = "Send A Song In Email"
    /\ chosen_tool = "gmail"
    /\ pick_tool("send a song in email") = "gmail"

\* the line being handled is the clear command
ClearStep == lines' = lines + 1 /\ Lower(Strip(line')) = "clear"

\* C20: within one run of the program every step but a clear leaves the
\* documents the store held in place and in order, adding new ones only at
\* the end; a clear leaves the fresh one-document store; after every step
\* the handling of a line other than clear has added at most two documents
\* to the store the line found.
C20_AppendOnly ==
    [][/\ pc # "Shutdown" =>
            \/ IsPrefix(faiss_index, faiss_index')
            \/ ClearStep /\ faiss_index' = << Placeholder >>
       /\ (line' # None /\ Lower(Strip(line')) # "clear") =>
            /\ IsPrefix(store0', faiss_index')
            /\ Len(faiss_index') <= Len(store0') + 2]_vars

\* a second turn added its two documents after those of the first
C20_Witness ==
    /\ outcome = "ok"
    /\ Len(store0) = 3
    /\ Len(faiss_index) = 5
    /\ IsPrefix(store0, faiss_index)
    /\ store0[2].timestamp < faiss_index[4].timestamp

\* C21: the context handle_llm assembles holds at most TopK documents, each
\* one a document of the store with a text and none the placeholder, so
\* that a store with nothing besides the placeholder gives an empty context.
C21_ContextBounded ==
    /\ Cardinality(context) <= TopK
    /\ \A doc \in context :
          /\ doc # Placeholder
          /\ doc.page_content # ""
          /\ Holds(faiss_index, doc)
    /\ context # {} => (events # << >> /\ Last(events) = "handle_llm")

\* the search of a second turn returned the three documents with a text and
\* left the placeholder out
C21_Witness ==
    /\ pc = "add_response"
    /\ Len(faiss_index) = 4
    /\ Cardinality(context) = TopK
    /\ context = { faiss_index[i] : i \in 2..4 }

\* C22: for one input line every external target (a tool, the model) is
\* called at most once, with the line's text, and only by the handler;
\* after a handler has raised nothing more is done for the line, so no
\* call follows a failed one until another line is read.
C22_NoRetry ==
    /\ Len(calls) <= 2
    /\ \A i, j \in 1..Len(calls) : i # j => calls[i].target # calls[j].target
    /\ \A i \in 1..Len(calls) : calls[i].arg = user_input
    /\ Len(events) < 3 => calls = << >>
    /\ Len(calls) = 2 => (calls[1].target = "websearch" /\ calls[2].target = "model")
    /\ HandlerRaised =>
          /\ Len(events) = 3
          /\ pc \in {"AwaitingInput", "Shutdown"}
          /\ response = None

\* the search tool's call failed: the model was not called and the loop
\* waits for the next line
C22_Witness ==
    /\ pc = "AwaitingInput"
    /\ outcome = "error"
    /\ Len(events) = 3
    /\ events[3] = "handle_websearch:raised"
    /\ calls = << Call("websearch", "latest news") >>

\* some keyword of the category occurs in the case-folded text as a word
\* or phrase of its own
WordMatches(category, text) ==
    \E kw \in KeywordsOf(category) : ContainsWord(Lower(text), kw)

\* keywords occur in the text, but each only inside a longer word
InsideOnly(text) ==
    /\ \E i \in 1..Len(Categories) : Matches(Categories[i], text)
    /\ \A i \in 1..Len(Categories) : ~WordMatches(Categories[i], text)

\* C28 as stated: a text whose keywords occur only inside longer words is
\* routed to the direct-LLM category.
C28_WholeWordMatching ==
    (pc = "routed" /\ InsideOnly(user_input)) => chosen_tool = "llm"

\* C28 amended: keywords are matched as substrings of the case-folded text.
\* A text whose keywords occur only inside longer words is routed to the
\* first category, in priority order, with such an occurrence, never to the
\* direct-LLM category; a text is routed to direct-LLM only when no keyword
\* occurs in it anywhere.
C28_SubstringMatching ==
    pc = "routed" =>
        /\ InsideOnly(user_input) =>
              /\ chosen_tool # "llm"
              /\ \E i \in 1..Len(Categories) :
                    /\ chosen_tool = Categories[i]
                    /\ Matches(Categories[i], user_input)
                    /\ ~WordMatches(Categories[i], user_input)
                    /\ \A j \in 1..(i - 1) : ~Matches(Categories[j], user_input)
        /\ chosen_tool = "llm" =>
              \A i \in 1..Len(Categories) :
                  \A kw \in KeywordsOf(Categories[i]) : ~Contains(Lower(user_input), kw)

\* "now" inside "know" sent the sentence to web search
C28_Witness ==
    /\ pc = "routed"
    /\ user_input = "I know the display is on"
    /\ InsideOnly(user_input)
    /\ chosen_tool = "websearch"

\* C29: a text with a keyword of either assignment to math_keywords and no
\* web-search, mail or music keyword is routed to the math category.
C29_EveryMathKeywordTriggers ==
    (/\ pc = "routed"
     /\ \E kw \in math_keywords_first \cup math_keywords : Contains(Lower(user_input), kw)
     /\ \A c \in {"websearch", "gmail", "music-player"} : ~Matches(c, user_input)) =>
        chosen_tool = "math"

\* every stage of solve_math, in order
AllStages ==
    << "call_llm", "json_loads", "extract_math_with_llm", "task", "fields", "count",
       "validate", "build", "solve" >>

\* C30: solve_math never raises: when it has ended it has returned a dict,
\* one with the key "error" unless every stage succeeded, and one with the
\* key "solutions" only when every stage succeeded.
C30_SolveMathNeverRaises ==
    mpc = "done" =>
        /\ math_result.raised = None
        /\ stages # AllStages => "error" \in DOMAIN math_result.value
        /\ "solutions" \in DOMAIN math_result.value => stages = AllStages

\* C23: persist does not arbitrate between two instances: the snapshot is
\* what the instance that saved last held when it saved, so that its store
\* begins with the whole snapshot, whatever the other instance had saved.
C23_LastWriterWins ==
    last_writer # 0 =>
        /\ IsPrefix(snapshot, istore[last_writer])
        /\ \A i \in Instances : \A doc \in persisted[i] :
              Holds(snapshot, doc) => Holds(istore[last_writer], doc)

\* an instance completed and persisted a turn, then the other instance
\* persisted: the documents of the first one's turn are not in the snapshot
C23_Witness ==
    \E i \in Instances :
        /\ persisted[i] # {}
        /\ last_writer # 0 /\ last_writer # i
        /\ \A doc \in persisted[i] : ~Holds(snapshot, doc)


\* the index the global name mcp_components leads to
ServerStore == dicts[mcp_components].faiss_index

\* C24: once a POST /clear has completed, neither the memory store nor the
\* snapshot holds a document of a POST /chat that began before the clear
C24_ClearRemovesEarlierChats ==
    \A u \in cleared_over : \A doc \in docs_of[u] :
        /\ ~Holds(ServerStore, doc)
        /\ ~Holds(index_file, doc)

\* the request that added the document
Owner(doc) == CHOOSE t \in Requests : doc \in docs_of[t]

\* every user document of the index is directly followed by the assistant
\* document of the same request, and every assistant document follows one
CompletePairs(index) ==
    \A i \in 1..Len(index) :
        /\ index[i].source = "user" =>
              /\ i < Len(index)
              /\ index[i + 1].source = "assistant"
              /\ Owner(index[i + 1]) = Owner(index[i])
        /\ index[i].source = "assistant" => (i > 1 /\ index[i - 1].source = "user")

\* C25: the user document of an answered POST /chat is directly followed in
\* the memory store by the assistant document of the same request, and the
\* snapshot holds complete user/assistant pairs only, when all requests
\* are POST /chat
C25_PairsStayTogether ==
    (\A t \in Requests : tkind[t] # "clear") =>
    /\ \A t \in Requests : \A c \in 1..Len(dicts) : \A i \in 1..Len(dicts[c].faiss_index) :
          LET index == dicts[c].faiss_index
          IN  (/\ reply[t].status = "success"
               /\ tkind[t] = "chat"
               /\ index[i] \in docs_of[t]
               /\ index[i].source = "user")
              => /\ i < Len(index)
                 /\ index[i + 1] \in docs_of[t]
                 /\ index[i + 1].source = "assistant"
    /\ index_file # NoIndex => CompletePairs(index_file)

C27_BlankMessageIs400 ==
    \A t \in Requests :
        (tkind[t] = "chat" /\ tpc[t] = "done" /\ Strip(tmsg[t]) = "") =>
            /\ reply[t] = HttpError(400, "Message cannot be empty")
            /\ docs_of[t] = {}
            /\ tcalls[t] = << >>
            /\ saves[t] = 0

====
